---- MODULE Spec2Model ----
(***************************************************************************)
(* BetterImageViewer: the UI thread (ImageViewer, app.rs), the image       *)
(* decoding worker (ImageLoader, image_loader.rs), the thumbnail strip     *)
(* (ThumbnailList, thumbnail_list.rs) with its worker (ThumbnailLoader),   *)
(* and the easing functions (animation.rs).                                *)
(*                                                                         *)
(* Option<T> is a sequence: <<>> is None and <<x>> is Some(x).             *)
(* A path is a small integer; DirIds are directories, FileIds are files.   *)
(***************************************************************************)
EXTENDS Integers, Sequences, FiniteSets, TLC

VARIABLES
    \* ImageViewer (app.rs 9-35)
    error_msg,              \* Option<String>
    view_state,             \* ViewState, abstracted: "default" or "moved"
    last_loaded_path,       \* Option<String>; image_size is set with it
    current_folder_images,  \* Vec<PathBuf>
    current_image_index,    \* usize
    current_image_path,     \* Option<PathBuf>
    texture_cache,          \* HashMap<PathBuf, TextureHandle>: its key set
    loading_paths,          \* HashSet<PathBuf>
    reset_view_on_load,     \* bool
    config,                 \* AppConfig: [window_pos, window_size]
    config_file,            \* config.json: <<>> when missing, else <<content>>
    \* ImageLoader (image_loader.rs 35-99)
    cmd_chan,               \* channel::<ImageCommand>: tx_ui -> rx_worker
    res_chan,               \* channel::<ImageResult>: tx_worker -> rx_ui
    worker,                 \* the command the worker is decoding: Option<PathBuf>
    \* history of the image channels
    img_sent,               \* paths of the Load commands sent, in order
    img_recv,               \* paths of the results the UI received, in order
    nav,                    \* the last keyboard navigation: <<>> or <<[op, from]>>
    selection,              \* how the current image was chosen:
                            \* [by, fresh, untouched]
    budget,                 \* input events the user may still make
    \* ThumbnailList (thumbnail_list.rs 7-15); is_expanded, expand_progress and
    \* hover_opacity belong to display() and are not modelled
    thumbnails,             \* HashMap<PathBuf, TextureHandle>: its key set
    loading_path,           \* Option<PathBuf>
    \* ThumbnailLoader (image_loader.rs 103-149)
    tl_cmd_chan,            \* channel::<ThumbnailCommand>
    tl_res_chan,            \* channel::<ThumbnailResult>
    tl_worker,              \* the command the worker is decoding: Option<PathBuf>
    \* history of the thumbnail channels
    thumb_sent,             \* paths of the Load commands sent, in order
    thumb_recv,             \* paths of the results received, in order
    tl_last,                \* the last update_folder call: <<>> or
                            \* <<[folder, index, before]>>
    tl_budget,              \* thumbnail Load commands that may still be sent
    \* the easing functions' arguments (animation.rs)
    anim_current,           \* *current of exp_decay: f32, in 1/Scale
    anim_target,            \* target of exp_decay
    anim_vec,               \* *current of exp_decay_vec2: <<x, y>>
    anim_vec_target,        \* target of exp_decay_vec2
    anim_last,              \* the last call: <<>> or <<[fn, before, t, ret]>>
    anim_budget,            \* calls that may still be made
    \* ViewState (view_state.rs 4-9), in 1/Scale
    zoom,                   \* f32
    pan,                    \* Vec2: <<x, y>>
    target_zoom,            \* f32
    target_pan,             \* Vec2
    repaint,                \* whether the last process_input asked for a repaint
    gesture_budget,         \* pointer gestures the user may still make
    \* history of AppConfig
    cfg_last,               \* the last load or save: <<>> or
                            \* <<[op, env, config, file]>>, as they were before
    \* a directory and what load_folder_contents makes of it
    fs_dir,                 \* what std::fs::read_dir returns: <<>> for Err,
                            \* <<entries>> for Ok, entries in the order read
    fs_listing              \* <<>> before the call, then <<images>>

viewer_vars == <<error_msg, view_state, last_loaded_path, current_folder_images,
                 current_image_index, current_image_path, texture_cache,
                 loading_paths, reset_view_on_load, config, config_file>>
loader_vars == <<cmd_chan, res_chan, worker>>
ghost_vars == <<img_sent, img_recv, nav, selection, budget>>
thumb_vars == <<thumbnails, loading_path, tl_cmd_chan, tl_res_chan, tl_worker,
                thumb_sent, thumb_recv, tl_last, tl_budget>>
pz_vars == <<zoom, pan, target_zoom, target_pan, repaint, gesture_budget>>
folder_vars == <<fs_dir, fs_listing>>
anim_vars == <<anim_current, anim_target, anim_vec, anim_vec_target, anim_last,
               anim_budget, pz_vars, cfg_last, folder_vars>>
vars == <<viewer_vars, loader_vars, ghost_vars, thumb_vars, anim_vars>>

-----------------------------------------------------------------------------
(* Bounds of the model *)

\* input events (drop, key, click, gesture, window move) in one run of Spec
MaxInputs == 3

\* input events in one frame
MaxFrameEvents == 2

\* thumbnail Load commands past the eviction threshold in one run of SpecThumb
ExtraLoads == 3

\* input events in one run of SpecFair
MaxInputsFair == 2

\* calls of the easing functions in one run of SpecAnim
MaxAnimCalls == 2

\* pointer gestures (double click, scroll, drag) in one run of SpecView
MaxGestures == 1

\* input events and thumbnail Load commands in one run of SpecBoth
MaxInputsBoth == 1
MaxThumbLoads == 2

\* entries of the directory in one run of SpecFolder
MaxEntries == 2

\* the resolution of an f32: a value x is the integer x * Scale
Scale == 4 * 1000

-----------------------------------------------------------------------------
(* The file system the viewer is pointed at *)

\* thumbnail_list.rs: the cache sizes of update_folder, the size asked for
EvictAbove == 200
EvictTo == 100
ThumbMaxDim == 128

FileIds == 1..7

\* the images of the large folder the thumbnail list is shown are 21..MaxPathId
BigLen == EvictAbove + 1
MaxPathId == 20 + BigLen
DirIds == {11, 12, 13}

\* A directory entry is [path, extension, is_file]: entry.path(), the
\* characters of Path::extension (<<>> when the name has none) and what
\* Path::is_file answers.  "\\xFF" stands for a byte that is not UTF-8.
Entry(path, extension, is_file) ==
    [path |-> path, extension |-> extension, is_file |-> is_file]

\* std::fs::read_dir: <<>> for Err, <<entries>> for Ok, the entries in the
\* order the system yields them.  Directory 11 holds four images and file 7,
\* which is no image, directory 12 two images, directory 13 nothing; the
\* other paths are no directories.
read_dir(folder_path) ==
    CASE folder_path = 11 ->
             << <<Entry(3, <<"g", "i", "f">>, TRUE),
                  Entry(7, <<"t", "x", "t">>, TRUE),
                  Entry(1, <<"j", "p", "g">>, TRUE),
                  Entry(4, <<"J", "P", "E", "G">>, TRUE),
                  Entry(2, <<"P", "n", "g">>, TRUE)>> >>
      [] folder_path = 12 ->
             << <<Entry(6, <<"b", "m", "p">>, TRUE),
                  Entry(5, <<"w", "e", "b", "p">>, TRUE)>> >>
      [] folder_path = 13 -> << <<>> >>
      [] OTHER -> <<>>

Upper ==
    <<"A", "B", "C", "D", "E", "F", "G", "H", "I", "J", "K", "L", "M",
      "N", "O", "P", "Q", "R", "S", "T", "U", "V", "W", "X", "Y", "Z">>
Lower ==
    <<"a", "b", "c", "d", "e", "f", "g", "h", "i", "j", "k", "l", "m",
      "n", "o", "p", "q", "r", "s", "t", "u", "v", "w", "x", "y", "z">>

\* str::to_lowercase that leaves the case as it is
to_lowercase_keeps_case(ext) == ext

\* str::to_lowercase
to_lowercase(ext) ==
    [i \in DOMAIN ext |->
        IF \E k \in DOMAIN Upper : Upper[k] = ext[i]
        THEN Lower[CHOOSE k \in DOMAIN Upper : Upper[k] = ext[i]]
        ELSE ext[i]]

\* p.extension().and_then(|e| e.to_str()): None without an extension or when
\* it is not UTF-8
extension_str(entry) ==
    IF entry.extension = <<>> THEN <<>>
    ELSE IF \E i \in DOMAIN entry.extension : entry.extension[i] = "\\xFF"
         THEN <<>>
         ELSE <<entry.extension>>

\* the names of the matches! in load_folder_contents
ImageExtensions ==
    {<<"j", "p", "g">>, <<"j", "p", "e", "g">>, <<"p", "n", "g">>,
     <<"g", "i", "f">>, <<"w", "e", "b", "p">>, <<"b", "m", "p">>,
     <<"i", "c", "o">>, <<"t", "i", "f", "f">>, <<"a", "v", "i", "f">>}

\* whether the loop pushes the entry's path
is_image(entry) ==
    /\ entry.is_file
    /\ extension_str(entry) # <<>>
    /\ to_lowercase(extension_str(entry)[1]) \in ImageExtensions

\* the images Vec after the loop over the entries
push_images(entries) ==
    LET kept == SelectSeq(entries, is_image)
    IN  [i \in DOMAIN kept |-> kept[i].path]

\* Vec::sort: ascending, equal elements in their order
RECURSIVE sort(_)
sort(images) ==
    IF images = <<>> THEN <<>>
    ELSE LET rest == sort(Tail(images))
             first == Head(images)
         IN  SelectSeq(rest, LAMBDA p : p < first) \o <<first>>
             \o SelectSeq(rest, LAMBDA p : p >= first)

\* the listing load_folder_contents stores, given what read_dir returned
sorted_images(dir) ==
    IF dir # <<>> THEN sort(push_images(dir[1])) ELSE sort(<<>>)

\* the listings of the three directories
Listing11 == sorted_images(read_dir(11))
Listing12 == sorted_images(read_dir(12))
Listing13 == sorted_images(read_dir(13))

load_folder_contents(folder_path) ==
    CASE folder_path = 11 -> Listing11
      [] folder_path = 12 -> Listing12
      [] folder_path = 13 -> Listing13
      [] OTHER -> sorted_images(read_dir(folder_path))

is_dir(path) == path \in DirIds

\* Path::parent
parent(path) ==
    CASE path \in {1, 2, 3, 4, 7} -> <<11>>
      [] path \in {5, 6} -> <<12>>
      [] OTHER -> <<>>

\* Vec::iter().position(|p| p == &path): the first index (0-based), or None
\* the scan is split in halves so that the evaluation nests log(len) deep;
\* the left half is searched first, as the iterator does
RECURSIVE position_in(_, _, _, _)
position_in(seq, path, lo, hi) ==
    IF lo > hi THEN <<>>
    ELSE IF lo = hi THEN (IF seq[lo] = path THEN <<lo - 1>> ELSE <<>>)
    ELSE LET mid == (lo + hi) \div 2
             left == position_in(seq, path, lo, mid)
         IN  IF left # <<>> THEN left ELSE position_in(seq, path, mid + 1, hi)

position(seq, path) == position_in(seq, path, 1, Len(seq))

\* the paths of a folder listing (or of an Option)
Images(folder_images) == {folder_images[i] : i \in 1..Len(folder_images)}

NoImagesMsg == <<"No images found in the folder.", 0>>
LoadErrorMsg(path) == <<"Load error: ", path>>

Success(path) == [kind |-> "Success", path |-> path, err |-> <<"", 0>>]
Error(path, err) == [kind |-> "Error", path |-> path, err |-> err]

-----------------------------------------------------------------------------
(* config.rs: AppConfig and its JSON file.  The content of the file is      *)
(*   json    whether the text parses as JSON                                *)
(*   object  whether the JSON value is an object                            *)
(*   window_pos, window_size  the value under that key: <<>> when the key   *)
(*           is absent, else <<value>>                                      *)
(* and a JSON value is [kind, num, items]: null, a number, an array of      *)
(* values, or a string.  env says what the file system allows:              *)
(*   dirs      whether ProjectDirs::from finds a configuration directory    *)
(*   read_ok   whether fs::read_to_string succeeds                          *)
(*   write_ok  whether fs::write succeeds                                   *)

JNull == [kind |-> "null", num |-> 0, items |-> <<>>]
JNumber(n) == [kind |-> "number", num |-> n, items |-> <<>>]
JArray(items) == [kind |-> "array", num |-> 0, items |-> items]
JString == [kind |-> "string", num |-> 0, items |-> <<>>]

\* AppConfig::default (config.rs 12-19)
AppConfig_default == [window_pos |-> <<>>, window_size |-> <<<<800, 600>>>>]

\* Serialize for Option<[f32; 2]>: null, or an array of the two numbers
option_to_json(field) ==
    IF field = <<>> THEN JNull
    ELSE JArray(<<JNumber(field[1][1]), JNumber(field[1][2])>>)

\* serde_json::to_string_pretty(self): an object with both keys
to_string_pretty(cfg) ==
    [json |-> TRUE, object |-> TRUE,
     window_pos |-> <<option_to_json(cfg.window_pos)>>,
     window_size |-> <<option_to_json(cfg.window_size)>>]

\* option_from_json reading the two numbers of the array in reverse
option_from_json_reversed(entry) ==
    IF entry = <<>> \/ entry[1].kind = "null" THEN [ok |-> TRUE, field |-> <<>>]
    ELSE IF /\ entry[1].kind = "array"
            /\ Len(entry[1].items) = 2
            /\ \A i \in 1..2 : entry[1].items[i].kind = "number"
         THEN [ok |-> TRUE,
               field |-> <<<<entry[1].items[2].num, entry[1].items[1].num>>>>]
         ELSE [ok |-> FALSE, field |-> <<>>]

\* Deserialize for an Option<[f32; 2]> field: an absent key and null are None,
\* an array of exactly two numbers is Some, anything else is an error
option_from_json(entry) ==
    IF entry = <<>> \/ entry[1].kind = "null" THEN [ok |-> TRUE, field |-> <<>>]
    ELSE IF /\ entry[1].kind = "array"
            /\ Len(entry[1].items) = 2
            /\ \A i \in 1..2 : entry[1].items[i].kind = "number"
         THEN [ok |-> TRUE,
               field |-> <<<<entry[1].items[1].num, entry[1].items[2].num>>>>]
         ELSE [ok |-> FALSE, field |-> <<>>]

\* serde_json::from_str::<AppConfig>(&content): <<>> is Err, <<config>> is Ok
from_str(content) ==
    IF ~content.json \/ ~content.object THEN <<>>
    ELSE LET pos == option_from_json(content.window_pos)
             size == option_from_json(content.window_size)
         IN  IF pos.ok /\ size.ok
             THEN <<[window_pos |-> pos.field, window_size |-> size.field]>>
             ELSE <<>>

\* AppConfig::get_config_path (config.rs 22-32)
get_config_path(env) == IF env.dirs THEN <<"config.json">> ELSE <<>>

\* load returning an AppConfig without window size where it should return
\* the default
load_empty_on_failure(file, env) ==
    IF /\ get_config_path(env) # <<>>
       /\ file # <<>>
       /\ env.read_ok
       /\ from_str(file[1]) # <<>>
    THEN from_str(file[1])[1]
    ELSE [window_pos |-> <<>>, window_size |-> <<>>]

\* AppConfig::load (config.rs 34-45), given the file
load(file, env) ==
    IF /\ get_config_path(env) # <<>>
       /\ file # <<>>
       /\ env.read_ok
       /\ from_str(file[1]) # <<>>
    THEN from_str(file[1])[1]
    ELSE AppConfig_default

\* AppConfig::save (config.rs 47-53): the file afterwards
save_file(cfg, file, env) ==
    IF get_config_path(env) # <<>> /\ env.write_ok
    THEN <<to_string_pretty(cfg)>>
    ELSE file

AllOk == [dirs |-> TRUE, read_ok |-> TRUE, write_ok |-> TRUE]
Envs == [dirs : BOOLEAN, read_ok : BOOLEAN, write_ok : BOOLEAN]

-----------------------------------------------------------------------------
(* ImageViewer: the methods, as functions of the viewer's fields.  v.tx is  *)
(* loader.tx's channel and v.sent the history of what was sent on it.       *)
(* v.selection is the history of the calls that choose what is shown:       *)
(*   by         the method called last: "load_path", "next_image" or        *)
(*              "prev_image" ("new" before any of them)                     *)
(*   fresh      whether load_file ran in the last frame and no result was   *)
(*              received since                                              *)
(*   untouched  whether process_input has seen no scroll or drag since the  *)
(*              last load_file                                              *)
(* v.cfg_last is the history of AppConfig: the last load or save.           *)

Viewer ==
    [error_msg |-> error_msg, view_state |-> view_state,
     last_loaded_path |-> last_loaded_path,
     current_folder_images |-> current_folder_images,
     current_image_index |-> current_image_index,
     current_image_path |-> current_image_path,
     texture_cache |-> texture_cache, loading_paths |-> loading_paths,
     reset_view_on_load |-> reset_view_on_load,
     config |-> config, config_file |-> config_file,
     tx |-> cmd_chan, sent |-> img_sent, selection |-> selection,
     cfg_last |-> cfg_last]

is_loading(v) ==
    IF v.current_image_path # <<>>
    THEN v.current_image_path[1] \in v.loading_paths
    ELSE FALSE

\* send on a channel that delivers the newest message first
send_to_front(chan, msg) == <<msg>> \o chan

\* Sender::send on an unbounded channel: appends, whatever is queued
send(chan, msg) == Append(chan, msg)

\* send_ready for a sync_channel(1): send blocks while a message is queued
send_ready_bounded(chan) == Len(chan) < 1

\* whether Sender::send returns without waiting: std::sync::mpsc::channel()
\* is unbounded, so always
send_ready(chan) == TRUE

\* request_load without the look at loading_paths
request_load_unchecked(v, path) ==
    IF path \notin v.texture_cache
    THEN [v EXCEPT !.loading_paths = @ \cup {path},
                   !.tx = send(@, path),
                   !.sent = Append(@, path)]
    ELSE v

request_load(v, path) ==
    IF path \notin v.texture_cache /\ path \notin v.loading_paths
    THEN [v EXCEPT !.loading_paths = @ \cup {path},
                   !.tx = send(@, path),
                   !.sent = Append(@, path)]
    ELSE v

\* keep_paths without the current image
keep_paths_neighbours_only(v, prev_path, next_path) == {prev_path, next_path}

keep_paths(v, prev_path, next_path) ==
    {v.current_image_path[i] : i \in 1..Len(v.current_image_path)}
        \cup {prev_path, next_path}

\* update_preloads without the retain on texture_cache
update_preloads_no_retain(v) ==
    IF v.current_folder_images = <<>>
    THEN v
    ELSE LET len == Len(v.current_folder_images)
             prev_idx == IF v.current_image_index = 0
                         THEN len - 1
                         ELSE v.current_image_index - 1
             next_idx == (v.current_image_index + 1) % len
             prev_path == v.current_folder_images[prev_idx + 1]
             next_path == v.current_folder_images[next_idx + 1]
             v1 == request_load(v, prev_path)
         IN  request_load(v1, next_path)

update_preloads(v) ==
    IF v.current_folder_images = <<>>
    THEN v
    ELSE LET len == Len(v.current_folder_images)
             prev_idx == IF v.current_image_index = 0
                         THEN len - 1
                         ELSE v.current_image_index - 1
             next_idx == (v.current_image_index + 1) % len
             prev_path == v.current_folder_images[prev_idx + 1]
             next_path == v.current_folder_images[next_idx + 1]
             v1 == request_load(v, prev_path)
             v2 == request_load(v1, next_path)
         IN  [v2 EXCEPT !.texture_cache =
                            @ \cap keep_paths(v2, prev_path, next_path)]

load_file(v, path, reset_view) ==
    LET v1 == [v EXCEPT !.current_image_path = <<path>>,
                        !.reset_view_on_load = reset_view,
                        !.error_msg = <<>>,
                        !.selection.fresh = TRUE,
                        !.selection.untouched = TRUE]
    IN  update_preloads(request_load(v1, path))

\* load_path keeping the image that was selected when the folder has no image
load_path_empty_keeps_current(v, path) ==
    IF is_dir(path)
    THEN LET v1 == [v EXCEPT !.current_folder_images = load_folder_contents(path),
                             !.selection.by = "load_path"]
         IN  IF v1.current_folder_images = <<>>
             THEN [v1 EXCEPT !.error_msg = <<NoImagesMsg>>]
             ELSE load_file([v1 EXCEPT !.current_image_index = 0],
                            v1.current_folder_images[1], TRUE)
    ELSE LET v1 ==
                 IF parent(path) # <<>>
                 THEN LET images == load_folder_contents(parent(path)[1])
                          idx == position(images, path)
                      IN  IF idx # <<>>
                          THEN [v EXCEPT !.current_folder_images = images,
                                         !.current_image_index = idx[1]]
                          ELSE [v EXCEPT !.current_folder_images = <<path>>,
                                         !.current_image_index = 0]
                 ELSE [v EXCEPT !.current_folder_images = <<path>>,
                                !.current_image_index = 0]
         IN  load_file([v1 EXCEPT !.selection.by = "load_path"], path, TRUE)

\* load_path not storing the position found in the folder
load_path_keeps_index(v, path) ==
    IF is_dir(path)
    THEN LET v1 == [v EXCEPT !.current_folder_images = load_folder_contents(path),
                             !.selection.by = "load_path"]
         IN  IF v1.current_folder_images = <<>>
             THEN [v1 EXCEPT !.error_msg = <<NoImagesMsg>>,
                             !.current_image_path = <<>>]
             ELSE load_file([v1 EXCEPT !.current_image_index = 0],
                            v1.current_folder_images[1], TRUE)
    ELSE LET v1 ==
                 IF parent(path) # <<>>
                 THEN LET images == load_folder_contents(parent(path)[1])
                          idx == position(images, path)
                      IN  IF idx # <<>>
                          THEN [v EXCEPT !.current_folder_images = images]
                          ELSE [v EXCEPT !.current_folder_images = <<path>>,
                                         !.current_image_index = 0]
                 ELSE [v EXCEPT !.current_folder_images = <<path>>,
                                !.current_image_index = 0]
         IN  load_file([v1 EXCEPT !.selection.by = "load_path"], path, TRUE)

load_path(v, path) ==
    IF is_dir(path)
    THEN LET v1 == [v EXCEPT !.current_folder_images = load_folder_contents(path),
                             !.selection.by = "load_path"]
         IN  IF v1.current_folder_images = <<>>
             THEN [v1 EXCEPT !.error_msg = <<NoImagesMsg>>,
                             !.current_image_path = <<>>]
             ELSE load_file([v1 EXCEPT !.current_image_index = 0],
                            v1.current_folder_images[1], TRUE)
    ELSE LET v1 ==
                 IF parent(path) # <<>>
                 THEN LET images == load_folder_contents(parent(path)[1])
                          idx == position(images, path)
                      IN  IF idx # <<>>
                          THEN [v EXCEPT !.current_folder_images = images,
                                         !.current_image_index = idx[1]]
                          ELSE [v EXCEPT !.current_folder_images = <<path>>,
                                         !.current_image_index = 0]
                 ELSE [v EXCEPT !.current_folder_images = <<path>>,
                                !.current_image_index = 0]
         IN  load_file([v1 EXCEPT !.selection.by = "load_path"], path, TRUE)

\* next_image asking for the view to be reset
next_image_resets(v) ==
    IF v.current_folder_images = <<>>
    THEN v
    ELSE LET idx == (v.current_image_index + 1) % Len(v.current_folder_images)
         IN  load_file([v EXCEPT !.current_image_index = idx,
                                 !.selection.by = "next_image"],
                       v.current_folder_images[idx + 1], TRUE)

next_image(v) ==
    IF v.current_folder_images = <<>>
    THEN v
    ELSE LET idx == (v.current_image_index + 1) % Len(v.current_folder_images)
         IN  load_file([v EXCEPT !.current_image_index = idx,
                                 !.selection.by = "next_image"],
                       v.current_folder_images[idx + 1], FALSE)

\* prev_image with a saturating decrement in place of the wrap-around
prev_image_saturating(v) ==
    IF v.current_folder_images = <<>>
    THEN v
    ELSE LET idx == IF v.current_image_index = 0
                    THEN 0
                    ELSE v.current_image_index - 1
         IN  load_file([v EXCEPT !.current_image_index = idx,
                                 !.selection.by = "prev_image"],
                       v.current_folder_images[idx + 1], FALSE)

prev_image(v) ==
    IF v.current_folder_images = <<>>
    THEN v
    ELSE LET idx == IF v.current_image_index = 0
                    THEN Len(v.current_folder_images) - 1
                    ELSE v.current_image_index - 1
         IN  load_file([v EXCEPT !.current_image_index = idx,
                                 !.selection.by = "prev_image"],
                       v.current_folder_images[idx + 1], FALSE)

-----------------------------------------------------------------------------
(* ImageViewer::update, part 1: one iteration of `while let Ok(result) =    *)
(* self.loader.rx.try_recv()`                                               *)

\* handle_result with the Error arm leaving the path in loading_paths
handle_result_error_keeps_loading(v, result) ==
    IF result.kind = "Success"
    THEN LET v1 == [v EXCEPT !.loading_paths = @ \ {result.path},
                             !.texture_cache = @ \cup {result.path}]
         IN  IF <<result.path>> = v1.current_image_path
             THEN [v1 EXCEPT !.last_loaded_path = <<result.path>>,
                             !.view_state =
                                 IF v1.reset_view_on_load THEN "default" ELSE @,
                             !.reset_view_on_load = FALSE]
             ELSE v1
    ELSE IF <<result.path>> = v.current_image_path
         THEN [v EXCEPT !.error_msg = <<result.err>>]
         ELSE v

\* handle_result with the Error arm not comparing the path with the current one
handle_result_any_error_shown(v, result) ==
    IF result.kind = "Success"
    THEN LET v1 == [v EXCEPT !.loading_paths = @ \ {result.path},
                             !.texture_cache = @ \cup {result.path}]
         IN  IF <<result.path>> = v1.current_image_path
             THEN [v1 EXCEPT !.last_loaded_path = <<result.path>>,
                             !.view_state =
                                 IF v1.reset_view_on_load THEN "default" ELSE @,
                             !.reset_view_on_load = FALSE]
             ELSE v1
    ELSE [v EXCEPT !.loading_paths = @ \ {result.path},
                   !.error_msg = <<result.err>>]

\* handle_result with the Success arm not comparing the path with the current
\* one
handle_result_any_success_current(v, result) ==
    IF result.kind = "Success"
    THEN [v EXCEPT !.loading_paths = @ \ {result.path},
                   !.texture_cache = @ \cup {result.path},
                   !.last_loaded_path = <<result.path>>,
                   !.view_state = IF v.reset_view_on_load THEN "default" ELSE @,
                   !.reset_view_on_load = FALSE]
    ELSE LET v1 == [v EXCEPT !.loading_paths = @ \ {result.path}]
         IN  IF <<result.path>> = v1.current_image_path
             THEN [v1 EXCEPT !.error_msg = <<result.err>>]
             ELSE v1

handle_result(v, result) ==
    IF result.kind = "Success"
    THEN LET v1 == [v EXCEPT !.loading_paths = @ \ {result.path},
                             !.texture_cache = @ \cup {result.path}]
         IN  IF <<result.path>> = v1.current_image_path
             THEN [v1 EXCEPT !.last_loaded_path = <<result.path>>,
                             !.view_state =
                                 IF v1.reset_view_on_load THEN "default" ELSE @,
                             !.reset_view_on_load = FALSE]
             ELSE v1
    ELSE LET v1 == [v EXCEPT !.loading_paths = @ \ {result.path}]
         IN  IF <<result.path>> = v1.current_image_path
             THEN [v1 EXCEPT !.error_msg = <<result.err>>]
             ELSE v1

-----------------------------------------------------------------------------
(* ImageViewer::update, parts 2-5: what the frame does once try_recv finds  *)
(* the channel empty.  inp is the frame's input:                            *)
(*   drop    Option<path>: the first dropped file                           *)
(*   key     "none", "right", "left" or "both"                              *)
(*   click   Option<path>: the file picked after clicking the Open button   *)
(*   gesture whether the user scrolls or drags over the image               *)
(*   rect    Option<[pos, size]>: the viewport's inner_rect                 *)
(*   disk    whether fs::write succeeds                                     *)

handle_drop(v, inp) ==
    IF inp.drop # <<>> THEN load_path(v, inp.drop[1]) ELSE v

handle_keys(v, inp) ==
    IF v.current_folder_images # <<>>
    THEN IF inp.key \in {"right", "both"} THEN next_image(v)
         ELSE IF inp.key = "left" THEN prev_image(v)
         ELSE v
    ELSE v

\* ViewState::process_input: a scroll or a drag moves zoom and pan
process_input(view, inp) == IF inp.gesture THEN "moved" ELSE view

layout(v, inp) ==
    IF is_loading(v) THEN v
    ELSE IF v.error_msg # <<>> THEN v
    ELSE IF v.current_image_path # <<>>
            /\ v.current_image_path[1] \in v.texture_cache
         THEN [v EXCEPT !.view_state = process_input(@, inp),
                        !.selection.untouched = @ /\ ~inp.gesture]
         ELSE IF inp.click # <<>> THEN load_path(v, inp.click[1]) ELSE v

\* self.config.save(): the write is best effort
save(v, inp) ==
    [v EXCEPT !.config_file =
                  save_file(v.config, @, [AllOk EXCEPT !.write_ok = inp.disk]),
              !.cfg_last = <<[op |-> "save",
                              env |-> [AllOk EXCEPT !.write_ok = inp.disk],
                              config |-> v.config, file |-> v.config_file]>>]

\* save_window_state comparing the position alone
save_window_state_pos_only(v, inp) ==
    IF inp.rect = <<>> THEN v
    ELSE LET new_pos == <<inp.rect[1].pos>>
             new_size == <<inp.rect[1].size>>
             changed == v.config.window_pos # new_pos
             v1 == [v EXCEPT !.config = [window_pos |-> new_pos,
                                         window_size |-> new_size]]
         IN  IF changed THEN save(v1, inp) ELSE v1

save_window_state(v, inp) ==
    IF inp.rect = <<>> THEN v
    ELSE LET new_pos == <<inp.rect[1].pos>>
             new_size == <<inp.rect[1].size>>
             changed == v.config.window_pos # new_pos
                        \/ v.config.window_size # new_size
             v1 == [v EXCEPT !.config = [window_pos |-> new_pos,
                                         window_size |-> new_size]]
         IN  IF changed THEN save(v1, inp) ELSE v1

update_rest(v, inp) ==
    LET v0 == [v EXCEPT !.selection.fresh = FALSE]
    IN  save_window_state(
            layout(handle_keys(handle_drop(v0, inp), inp), inp), inp)

\* the keyboard navigation the frame performs, for the history
nav_of(v, inp) ==
    LET v1 == handle_drop(v, inp)
    IN  IF v1.current_folder_images # <<>> /\ inp.key # "none"
        THEN <<[op |-> IF inp.key = "left" THEN "prev" ELSE "next",
                from |-> v1.current_image_index]>>
        ELSE <<>>

-----------------------------------------------------------------------------
(* The inputs a frame can see *)

Rect1 == [pos |-> <<0, 0>>, size |-> <<800, 600>>]
Rect2 == [pos |-> <<40, 40>>, size |-> <<800, 600>>]

NoInput ==
    [drop |-> <<>>, key |-> "none", click |-> <<>>, gesture |-> FALSE,
     rect |-> <<>>, disk |-> TRUE]

\* the number of input events in a frame's input
events(inp) ==
    (IF inp.drop # <<>> THEN 1 ELSE 0) + (IF inp.key # "none" THEN 1 ELSE 0)
    + (IF inp.click # <<>> THEN 1 ELSE 0) + (IF inp.gesture THEN 1 ELSE 0)
    + (IF inp.rect # <<>> THEN 1 ELSE 0)

\* a folder (11), a folder without images (13), an image in the middle of its
\* folder (2) and a file that is no image (7) can be dropped; folder 12 is
\* reached through the command line and the file dialog
Inputs ==
    {inp \in [drop : {<<>>, <<11>>, <<13>>, <<2>>, <<7>>},
              key : {"none", "right", "left", "both"},
              click : {<<>>, <<5>>},
              gesture : BOOLEAN,
              rect : {<<>>, <<Rect1>>, <<Rect2>>},
              disk : BOOLEAN] :
        /\ events(inp) <= MaxFrameEvents
        /\ (inp.rect = <<>> => inp.disk)}

\* image::ImageReader::open(..).with_guessed_format().decode(): files 3, 6 and
\* 7 do not decode
decodes(path) == path % 3 # 0 /\ path # 7

-----------------------------------------------------------------------------
(* State after ImageViewer::new (app.rs 38-63) with AppConfig::default      *)

NewViewer ==
    [error_msg |-> <<>>, view_state |-> "default", last_loaded_path |-> <<>>,
     current_folder_images |-> <<>>, current_image_index |-> 0,
     current_image_path |-> <<>>, texture_cache |-> {}, loading_paths |-> {},
     reset_view_on_load |-> TRUE,
     config |-> AppConfig_default,
     config_file |-> <<>>,
     tx |-> <<>>, sent |-> <<>>,
     selection |-> [by |-> "new", fresh |-> FALSE, untouched |-> TRUE],
     cfg_last |-> <<>>]

new(initial_path) ==
    IF initial_path # <<>> THEN load_path(NewViewer, initial_path[1])
    ELSE NewViewer

InitViewer(v) ==
    /\ error_msg = v.error_msg
    /\ view_state = v.view_state
    /\ last_loaded_path = v.last_loaded_path
    /\ current_folder_images = v.current_folder_images
    /\ current_image_index = v.current_image_index
    /\ current_image_path = v.current_image_path
    /\ texture_cache = v.texture_cache
    /\ loading_paths = v.loading_paths
    /\ reset_view_on_load = v.reset_view_on_load
    /\ config = v.config
    /\ config_file = v.config_file
    /\ cmd_chan = v.tx
    /\ img_sent = v.sent
    /\ selection = v.selection
    /\ res_chan = <<>>
    /\ worker = <<>>
    /\ img_recv = <<>>
    /\ nav = <<>>

\* the viewer's fields become those of v
SetViewer(v) ==
    /\ error_msg' = v.error_msg
    /\ view_state' = v.view_state
    /\ last_loaded_path' = v.last_loaded_path
    /\ current_folder_images' = v.current_folder_images
    /\ current_image_index' = v.current_image_index
    /\ current_image_path' = v.current_image_path
    /\ texture_cache' = v.texture_cache
    /\ loading_paths' = v.loading_paths
    /\ reset_view_on_load' = v.reset_view_on_load
    /\ config' = v.config
    /\ config_file' = v.config_file
    /\ cmd_chan' = v.tx
    /\ img_sent' = v.sent
    /\ selection' = v.selection

\* ViewState::default (view_state.rs 11-20)
ViewState_default ==
    [zoom |-> Scale, pan |-> <<0, 0>>, target_zoom |-> Scale,
     target_pan |-> <<0, 0>>]

InitViewState(gestures) ==
    /\ zoom = ViewState_default.zoom
    /\ pan = ViewState_default.pan
    /\ target_zoom = ViewState_default.target_zoom
    /\ target_pan = ViewState_default.target_pan
    /\ repaint = FALSE
    /\ gesture_budget = gestures

\* no directory is looked at
InitFolderIdle ==
    /\ fs_dir = <<>>
    /\ fs_listing = <<>>

\* no easing call is made
InitAnimIdle ==
    /\ anim_current = 0
    /\ anim_target = 0
    /\ anim_vec = <<0, 0>>
    /\ anim_vec_target = <<0, 0>>
    /\ anim_last = <<>>
    /\ anim_budget = 0
    /\ InitViewState(0)
    /\ cfg_last = <<>>
    /\ InitFolderIdle

\* State after ThumbnailList::new (thumbnail_list.rs 29-38)
InitThumbs ==
    /\ thumbnails = {}
    /\ loading_path = <<>>
    /\ tl_cmd_chan = <<>>
    /\ tl_res_chan = <<>>
    /\ tl_worker = <<>>
    /\ thumb_sent = <<>>
    /\ thumb_recv = <<>>
    /\ tl_last = <<>>

Init ==
    /\ \E initial_path \in {<<>>, <<12>>} : InitViewer(new(initial_path))
    /\ budget = MaxInputs
    /\ InitThumbs
    /\ tl_budget = 0
    /\ InitAnimIdle

-----------------------------------------------------------------------------
(* Actions of the UI thread and of the image worker *)

\* update: try_recv returns a result, which is handled
UpdateRecv ==
    /\ res_chan # <<>>
    /\ SetViewer([handle_result(Viewer, Head(res_chan))
                     EXCEPT !.selection.fresh = FALSE])
    /\ res_chan' = Tail(res_chan)
    /\ img_recv' = Append(img_recv, Head(res_chan).path)
    /\ nav' = <<>>
    /\ UNCHANGED <<worker, budget, thumb_vars, anim_vars>>

\* what the rest of the frame waits for: its Load commands being accepted by
\* the command channel
update_ready(inp) ==
    IF send_ready(cmd_chan) THEN TRUE
    ELSE update_rest(Viewer, inp).tx = cmd_chan

\* update: try_recv finds the channel empty; the rest of the frame
UpdateInput(inp) ==
    /\ res_chan = <<>>
    /\ events(inp) <= budget
    /\ update_ready(inp)
    /\ SetViewer(update_rest(Viewer, inp))
    /\ nav' = nav_of(Viewer, inp)
    /\ budget' = budget - events(inp)
    /\ UNCHANGED <<res_chan, worker, img_recv, thumb_vars, anim_vars>>

\* the worker thread: rx_worker.recv() returns a command
WorkerRecv ==
    /\ worker = <<>>
    /\ cmd_chan # <<>>
    /\ worker' = <<Head(cmd_chan)>>
    /\ cmd_chan' = Tail(cmd_chan)
    /\ UNCHANGED <<viewer_vars, res_chan, ghost_vars, thumb_vars, anim_vars>>

\* worker_results with the Err(err) arm sending nothing
worker_results_silent_on_error(path) ==
    IF decodes(path) THEN <<Success(path)>> ELSE <<>>

\* the worker thread: the decode ends; what the match on its result sends on
\* tx_worker
worker_results(path) ==
    IF decodes(path) THEN <<Success(path)>>
    ELSE <<Error(path, LoadErrorMsg(path))>>

WorkerSend ==
    /\ worker # <<>>
    /\ send_ready(res_chan)
    /\ res_chan' = (IF worker_results(worker[1]) = <<>> THEN res_chan
                     ELSE send(res_chan, worker_results(worker[1])[1]))
    /\ worker' = <<>>
    /\ UNCHANGED <<viewer_vars, cmd_chan, ghost_vars, thumb_vars, anim_vars>>

Next ==
    \/ UpdateRecv
    \/ \E inp \in Inputs : UpdateInput(inp)
    \/ WorkerRecv
    \/ WorkerSend

Spec == Init /\ [][Next]_vars

-----------------------------------------------------------------------------
(* ThumbnailList: the methods, as functions of its fields.  t.tx is         *)
(* loader.tx's channel and t.sent the history of what was sent on it.       *)

Thumbs ==
    [thumbnails |-> thumbnails, loading_path |-> loading_path,
     tx |-> tl_cmd_chan, sent |-> thumb_sent]

\* (a as isize - b as isize).abs()
abs_diff(a, b) == IF a >= b THEN a - b ELSE b - a

\* the for loop of try_load_next over the indices lo..hi (0-based): <<>> when
\* no path is missing (min_dist stays usize::MAX), else <<[idx, dist]>>.  A
\* later index replaces the best only when strictly nearer (dist < min_dist).
\* The loop is split in halves so that the evaluation nests log(len) deep.
RECURSIVE nearest_missing(_, _, _, _, _)
nearest_missing(thumbs, folder_images, current_index, lo, hi) ==
    IF lo > hi THEN <<>>
    ELSE IF lo = hi
    THEN (IF folder_images[lo + 1] \notin thumbs
          THEN <<[idx |-> lo, dist |-> abs_diff(lo, current_index)]>>
          ELSE <<>>)
    ELSE LET mid == (lo + hi) \div 2
             first == nearest_missing(thumbs, folder_images, current_index,
                                      lo, mid)
             later == nearest_missing(thumbs, folder_images, current_index,
                                      mid + 1, hi)
         IN  IF first = <<>> THEN later
             ELSE IF later # <<>> /\ later[1].dist < first[1].dist THEN later
             ELSE first

try_load_next(t, folder_images, current_index) ==
    IF t.loading_path = <<>> /\ folder_images # <<>>
    THEN LET best_idx == nearest_missing(t.thumbnails, folder_images,
                                         current_index,
                                         0, Len(folder_images) - 1)
         IN  IF best_idx # <<>>
             THEN LET path == folder_images[best_idx[1].idx + 1]
                  IN  [t EXCEPT !.loading_path = <<path>>,
                                !.tx = send(@, [path |-> path,
                                                max_dim |-> ThumbMaxDim]),
                                !.sent = Append(@, path)]
             ELSE t
    ELSE t

\* the sort key of update_folder's comparator: the distance of key's index in
\* the folder (0 when it is not there) from the current index
sort_dist(folder_images, current_index, key) ==
    LET idx == position(folder_images, key)
    IN  abs_diff(IF idx # <<>> THEN idx[1] ELSE 0, current_index)

\* self.thumbnails.keys().cloned().collect(): the keys in the map's iteration
\* order, which is unspecified; two orders are modelled, ascending and
\* descending path.  Each key comes with its sort key.
RECURSIVE keys_in(_, _, _, _, _, _)
keys_in(thumbs, folder_images, current_index, order, lo, hi) ==
    IF lo > hi THEN <<>>
    ELSE IF lo = hi
    THEN LET key == IF order = "ascending" THEN lo ELSE MaxPathId + 1 - lo
         IN  IF key \in thumbs
             THEN << <<sort_dist(folder_images, current_index, key), key>> >>
             ELSE <<>>
    ELSE LET mid == (lo + hi) \div 2
         IN  keys_in(thumbs, folder_images, current_index, order, lo, mid)
             \o keys_in(thumbs, folder_images, current_index, order, mid + 1, hi)

\* sort_by_dist with the comparator reversed (dist_a.cmp(&dist_b)): nearest first
RECURSIVE sort_by_dist_nearest_first(_, _, _)
sort_by_dist_nearest_first(keys, lo, hi) ==
    IF lo > hi THEN <<>>
    ELSE IF lo = hi THEN SelectSeq(keys, LAMBDA k : k[1] = lo)
    ELSE LET mid == (lo + hi) \div 2
         IN  sort_by_dist_nearest_first(keys, lo, mid)
             \o sort_by_dist_nearest_first(keys, mid + 1, hi)

\* keys.sort_by(|a, b| dist_b.cmp(&dist_a)): a stable sort, furthest first;
\* the keys at distances lo..hi, those at hi first
RECURSIVE sort_by_dist(_, _, _)
sort_by_dist(keys, lo, hi) ==
    IF lo > hi THEN <<>>
    ELSE IF lo = hi THEN SelectSeq(keys, LAMBDA k : k[1] = lo)
    ELSE LET mid == (lo + hi) \div 2
         IN  sort_by_dist(keys, mid + 1, hi) \o sort_by_dist(keys, lo, mid)

\* evicted_keys with the loop stopping one entry early (len > 100 as len >= 102)
evicted_keys_one_short(thumbs, folder_images, current_index, order) ==
    IF Cardinality(thumbs) > EvictAbove
    THEN LET keys == keys_in(thumbs, folder_images, current_index, order,
                             1, MaxPathId)
             sorted == sort_by_dist(keys, 0,
                                    Len(folder_images) + current_index)
         IN  {sorted[j][2] : j \in 1..(Len(sorted) - EvictTo - 1)}
    ELSE {}

\* the eviction of update_folder: the keys it removes
evicted_keys(thumbs, folder_images, current_index, order) ==
    IF Cardinality(thumbs) > EvictAbove
    THEN LET keys == keys_in(thumbs, folder_images, current_index, order,
                             1, MaxPathId)
             sorted == sort_by_dist(keys, 0,
                                    Len(folder_images) + current_index)
         IN  {sorted[j][2] : j \in 1..(Len(sorted) - EvictTo)}
    ELSE {}

update_folder(t, folder_images, current_index, order) ==
    IF folder_images = <<>> THEN t
    ELSE try_load_next(
             [t EXCEPT !.thumbnails =
                         @ \ evicted_keys(@, folder_images, current_index, order)],
             folder_images, current_index)

\* both a Success and an Error result put a texture in the map
process_results(t, results, folder_images, current_index) ==
    LET t1 == [t EXCEPT !.thumbnails =
                          @ \cup {results[j].path : j \in 1..Len(results)}]
        loaded == results # <<>>
    IN  IF loaded
        THEN try_load_next([t1 EXCEPT !.loading_path = <<>>],
                           folder_images, current_index)
        ELSE t1

-----------------------------------------------------------------------------
(* Actions of the thumbnail list and of the thumbnail worker.  rec tells    *)
(* whether the channel history is recorded.                                 *)

SetThumbs(t, rec) ==
    /\ Len(t.tx) - Len(tl_cmd_chan) <= tl_budget
    /\ (t.tx # tl_cmd_chan => send_ready(tl_cmd_chan))
    /\ thumbnails' = t.thumbnails
    /\ loading_path' = t.loading_path
    /\ tl_cmd_chan' = t.tx
    /\ thumb_sent' = IF rec THEN t.sent ELSE thumb_sent
    /\ tl_budget' = tl_budget - (Len(t.tx) - Len(tl_cmd_chan))

UpdateFolder(folder_images, current_index, order, rec) ==
    /\ SetThumbs(update_folder(Thumbs, folder_images, current_index, order), rec)
    /\ tl_last' = <<[folder |-> folder_images, index |-> current_index,
                     before |-> thumbnails]>>
    /\ UNCHANGED <<tl_res_chan, tl_worker, thumb_recv>>
    /\ UNCHANGED <<viewer_vars, loader_vars, ghost_vars, anim_vars>>

ProcessResults(folder_images, current_index, rec) ==
    /\ SetThumbs(process_results(Thumbs, tl_res_chan, folder_images,
                                 current_index), rec)
    /\ tl_res_chan' = <<>>
    /\ thumb_recv' = IF rec
                     THEN thumb_recv
                          \o [j \in 1..Len(tl_res_chan) |-> tl_res_chan[j].path]
                     ELSE thumb_recv
    /\ tl_last' = <<>>
    /\ UNCHANGED <<tl_worker>>
    /\ UNCHANGED <<viewer_vars, loader_vars, ghost_vars, anim_vars>>

ThumbWorkerRecv ==
    /\ tl_worker = <<>>
    /\ tl_cmd_chan # <<>>
    /\ tl_worker' = <<Head(tl_cmd_chan).path>>
    /\ tl_cmd_chan' = Tail(tl_cmd_chan)
    /\ UNCHANGED <<thumbnails, loading_path, tl_res_chan, thumb_sent,
                   thumb_recv, tl_last, tl_budget>>
    /\ UNCHANGED <<viewer_vars, loader_vars, ghost_vars, anim_vars>>

thumb_result(path) ==
    IF decodes(path) THEN Success(path) ELSE Error(path, <<"", path>>)

ThumbWorkerSend ==
    /\ tl_worker # <<>>
    /\ send_ready(tl_res_chan)
    /\ tl_res_chan' = send(tl_res_chan, thumb_result(tl_worker[1]))
    /\ tl_worker' = <<>>
    /\ UNCHANGED <<thumbnails, loading_path, tl_cmd_chan, thumb_sent,
                   thumb_recv, tl_last, tl_budget>>
    /\ UNCHANGED <<viewer_vars, loader_vars, ghost_vars, anim_vars>>

-----------------------------------------------------------------------------
(* The thumbnail list alone, on a folder large enough for the eviction      *)

BigFolder == [i \in 1..BigLen |-> 20 + i]
SmallFolder == <<5, 6>>

ThumbInputs ==
    {<<BigFolder, BigLen \div 2>>, <<SmallFolder, 1>>, <<<<>>, 0>>}

InitThumb ==
    /\ InitViewer(NewViewer)
    /\ budget = 0
    /\ InitThumbs
    /\ tl_budget = EvictAbove + ExtraLoads
    /\ InitAnimIdle

NextThumb ==
    \/ \E inp \in ThumbInputs, order \in {"ascending", "descending"} :
           UpdateFolder(inp[1], inp[2], order, FALSE)
    \/ \E inp \in ThumbInputs : ProcessResults(inp[1], inp[2], FALSE)
    \/ ThumbWorkerRecv
    \/ ThumbWorkerSend

SpecThumb == InitThumb /\ [][NextThumb]_vars

-----------------------------------------------------------------------------
(* The viewer with its worker under fair scheduling: the worker thread runs  *)
(* whenever it has something to do, and it calls ctx.request_repaint() after *)
(* every result (image_loader.rs 89), so a frame follows that receives it.   *)

InitFair ==
    /\ \E initial_path \in {<<>>, <<12>>} : InitViewer(new(initial_path))
    /\ budget = MaxInputsFair
    /\ InitThumbs
    /\ tl_budget = 0
    /\ InitAnimIdle

SpecFair ==
    /\ InitFair
    /\ [][Next]_vars
    /\ WF_vars(WorkerRecv)
    /\ WF_vars(WorkerSend)
    /\ WF_vars(UpdateRecv)

-----------------------------------------------------------------------------
(* The viewer and the thumbnail list together; the thumbnail list is shown  *)
(* the viewer's folder and index.                                           *)

InitBoth ==
    /\ InitViewer(NewViewer)
    /\ budget = MaxInputsBoth
    /\ InitThumbs
    /\ tl_budget = MaxThumbLoads
    /\ InitAnimIdle

NextBoth ==
    \/ UpdateRecv
    \/ \E inp \in Inputs : UpdateInput(inp)
    \/ WorkerRecv
    \/ WorkerSend
    \/ \E order \in {"ascending", "descending"} :
           UpdateFolder(current_folder_images, current_image_index, order, TRUE)
    \/ ProcessResults(current_folder_images, current_image_index, TRUE)
    \/ ThumbWorkerRecv
    \/ ThumbWorkerSend

SpecBoth == InitBoth /\ [][NextBoth]_vars

-----------------------------------------------------------------------------
(* animation.rs: exp_decay and exp_decay_vec2.  An f32 is a fixed-point      *)
(* number, an integer count of 1/Scale, and a product is rounded to the      *)
(* nearest count.  The factor t = 1.0 - (-speed * dt).exp() is a fraction    *)
(* [n, d]: 0 for speed * dt = 0, below 1 for speed * dt > 0, 1 once the      *)
(* exponential underflows, and negative for speed * dt < 0.                  *)

\* the thresholds 0.001 (animation.rs 14) and 0.1 (animation.rs 26)
Eps == Scale \div 1000
EpsVec2 == Scale \div 10

Factors == {[n |-> k, d |-> 4] : k \in {-1, 0, 1, 2, 3, 4}}

abs(x) == IF x >= 0 THEN x ELSE -x

\* a / b for b > 0, rounded to the nearest integer
round_div(a, b) ==
    IF a >= 0 THEN (2 * a + b) \div (2 * b) ELSE -((2 * (-a) + b) \div (2 * b))

\* current + (target - current) * t
lerp(current, target, t) == current + round_div((target - current) * t.n, t.d)

\* exp_decay with the threshold test diff >= 0.001
exp_decay_inclusive(current, target, t) ==
    IF abs(current - target) >= Eps
    THEN [current |-> lerp(current, target, t), animating |-> TRUE]
    ELSE [current |-> target, animating |-> FALSE]

\* exp_decay with the else arm not assigning target to *current
exp_decay_no_snap(current, target, t) ==
    IF abs(current - target) > Eps
    THEN [current |-> lerp(current, target, t), animating |-> TRUE]
    ELSE [current |-> current, animating |-> FALSE]

\* exp_decay: the new *current and the value returned
exp_decay(current, target, t) ==
    IF abs(current - target) > Eps
    THEN [current |-> lerp(current, target, t), animating |-> TRUE]
    ELSE [current |-> target, animating |-> FALSE]

\* (*current - target).length() > 0.1, both sides squared
vec2_farther_than(current, target, eps) ==
    (current[1] - target[1]) * (current[1] - target[1])
    + (current[2] - target[2]) * (current[2] - target[2]) > eps * eps

\* exp_decay_vec2: the new *current and the value returned
exp_decay_vec2(current, target, t) ==
    IF vec2_farther_than(current, target, EpsVec2)
    THEN [current |-> <<lerp(current[1], target[1], t),
                        lerp(current[2], target[2], t)>>,
          animating |-> TRUE]
    ELSE [current |-> target, animating |-> FALSE]

\* the arguments the functions are called with
ScalarTargets == {0, Scale}
ScalarOffsets == {0, Eps - 1, Eps, Eps + 1, Scale, -(Eps - 1), -Eps, -(Eps + 1),
                  -(3 * Scale)}
\* 282^2 + 282^2 < 400^2 < 283^2 + 283^2
VecStarts == {<<0, 0>>, <<EpsVec2, 0>>, <<EpsVec2 + 1, 0>>, <<0, -(EpsVec2 + 1)>>,
              <<282, 282>>, <<-283, 283>>, <<3 * Scale, -Scale>>}

InitAnim ==
    /\ InitViewer(NewViewer)
    /\ budget = 0
    /\ InitThumbs
    /\ tl_budget = 0
    /\ anim_target \in ScalarTargets
    /\ anim_current \in {anim_target + o : o \in ScalarOffsets}
    /\ anim_vec_target = <<0, 0>>
    /\ anim_vec \in VecStarts
    /\ anim_last = <<>>
    /\ anim_budget = MaxAnimCalls
    /\ InitViewState(0)
    /\ cfg_last = <<>>
    /\ InitFolderIdle

ExpDecay(t) ==
    /\ anim_budget > 0
    /\ anim_current' = exp_decay(anim_current, anim_target, t).current
    /\ anim_last' = <<[fn |-> "exp_decay", before |-> <<anim_current>>, t |-> t,
                       ret |-> exp_decay(anim_current, anim_target, t).animating]>>
    /\ anim_budget' = anim_budget - 1
    /\ UNCHANGED <<anim_target, anim_vec, anim_vec_target, pz_vars, cfg_last, folder_vars>>
    /\ UNCHANGED <<viewer_vars, loader_vars, ghost_vars, thumb_vars>>

ExpDecayVec2(t) ==
    /\ anim_budget > 0
    /\ anim_vec' = exp_decay_vec2(anim_vec, anim_vec_target, t).current
    /\ anim_last' = <<[fn |-> "exp_decay_vec2", before |-> anim_vec, t |-> t,
                       ret |-> exp_decay_vec2(anim_vec, anim_vec_target,
                                              t).animating]>>
    /\ anim_budget' = anim_budget - 1
    /\ UNCHANGED <<anim_current, anim_target, anim_vec_target, pz_vars, cfg_last, folder_vars>>
    /\ UNCHANGED <<viewer_vars, loader_vars, ghost_vars, thumb_vars>>

NextAnim ==
    \/ \E t \in Factors : ExpDecay(t)
    \/ \E t \in Factors : ExpDecayVec2(t)

SpecAnim == InitAnim /\ [][NextAnim]_vars

-----------------------------------------------------------------------------
(* view_state.rs: ViewState::process_input, one call per frame in which the *)
(* image is painted.  g is the pointer input of the frame:                  *)
(*   wants_pointer  whether egui wants the pointer or it is over an area    *)
(*   double_click   whether the primary button was double clicked           *)
(*   scroll         smooth_scroll_delta.y / 50: wheel clicks, 0 for none    *)
(*   hover          the pointer relative to the centre of the clip rect     *)
(*   drag           Option<Vec2>: pointer.delta() while a button is down    *)
(* and t is 1 - exp(-speed * dt) for dt = stable_dt.min(0.1), speed = 15.   *)

ViewState == [zoom |-> zoom, pan |-> pan, target_zoom |-> target_zoom,
              target_pan |-> target_pan]

\* f32::clamp
clamp(x, lo, hi) == IF x < lo THEN lo ELSE IF x > hi THEN hi ELSE x

\* 1.2_f32.powf(zoom_steps) for a whole number of wheel clicks, as a fraction
zoom_multiplier(zoom_steps) ==
    IF zoom_steps > 0 THEN [n |-> 6, d |-> 5] ELSE [n |-> 5, d |-> 6]

\* view_state.rs 34-42
handle_double_click(s, g) ==
    IF ~g.wants_pointer /\ g.double_click
    THEN [s EXCEPT !.target_zoom = Scale, !.target_pan = <<0, 0>>]
    ELSE s

\* view_state.rs 45-71
handle_scroll(s, g) ==
    LET scroll_delta == IF g.wants_pointer THEN 0 ELSE g.scroll
    IN  IF scroll_delta # 0
        THEN LET m == zoom_multiplier(scroll_delta)
                 old_target_zoom == s.target_zoom
                 new_target_zoom ==
                     clamp(round_div(s.target_zoom * m.n, m.d),
                           Scale \div 100, 500 * Scale)
                 rel_m == g.hover
                 coord(i) ==
                     rel_m[i] - round_div((rel_m[i] - s.target_pan[i])
                                              * new_target_zoom,
                                          old_target_zoom)
             IN  [s EXCEPT !.target_zoom = new_target_zoom,
                           !.target_pan = <<coord(1), coord(2)>>]
        ELSE s

\* view_state.rs 74-84
handle_drag(s, g) ==
    IF ~g.wants_pointer /\ g.drag # <<>>
    THEN [s EXCEPT !.target_pan = <<@[1] + g.drag[1][1], @[2] + g.drag[1][2]>>,
                   !.pan = <<@[1] + g.drag[1][1], @[2] + g.drag[1][2]>>]
    ELSE s

\* view_state.rs 86-95: the new ViewState and whether a repaint is requested
animate(s, t) ==
    LET z == exp_decay(s.zoom, s.target_zoom, t)
        p == exp_decay_vec2(s.pan, s.target_pan, t)
    IN  [view |-> [s EXCEPT !.zoom = z.current, !.pan = p.current],
         repaint |-> z.animating \/ p.animating]

ViewState_process_input(s, g, t) ==
    animate(handle_drag(handle_scroll(handle_double_click(s, g), g), g), t)

NoGesture ==
    [wants_pointer |-> FALSE, double_click |-> FALSE, scroll |-> 0,
     hover |-> <<0, 0>>, drag |-> <<>>]

\* the pointer input of a frame: nothing, a double click, a wheel click up at
\* the centre or off it, a wheel click down, a drag, and a wheel click while
\* egui wants the pointer
Gestures ==
    {NoGesture,
     [NoGesture EXCEPT !.double_click = TRUE],
     [NoGesture EXCEPT !.scroll = 1],
     [NoGesture EXCEPT !.scroll = 1, !.hover = <<Scale, 0>>],
     [NoGesture EXCEPT !.scroll = -1, !.hover = <<0, Scale>>],
     [NoGesture EXCEPT !.drag = <<<<2 * Scale, -Scale>>>>],
     [NoGesture EXCEPT !.scroll = 1, !.wants_pointer = TRUE]}

\* t for the frame deltas 0 <= dt <= 0.1: 1 - exp(-1.5) < 1
FrameFactors == {t \in Factors : t.n >= 0 /\ t.n < t.d}
PositiveFrameFactors == {t \in FrameFactors : t.n > 0}

InitView ==
    /\ InitViewer(NewViewer)
    /\ budget = 0
    /\ InitThumbs
    /\ tl_budget = 0
    /\ anim_current = 0
    /\ anim_target = 0
    /\ anim_vec = <<0, 0>>
    /\ anim_vec_target = <<0, 0>>
    /\ anim_last = <<>>
    /\ anim_budget = 0
    /\ InitViewState(MaxGestures)
    /\ cfg_last = <<>>
    /\ InitFolderIdle

\* a frame that paints the image: process_input with the frame's input
ProcessInput(g, t) ==
    /\ (g # NoGesture) => gesture_budget > 0
    /\ zoom' = ViewState_process_input(ViewState, g, t).view.zoom
    /\ pan' = ViewState_process_input(ViewState, g, t).view.pan
    /\ target_zoom' = ViewState_process_input(ViewState, g, t).view.target_zoom
    /\ target_pan' = ViewState_process_input(ViewState, g, t).view.target_pan
    /\ repaint' = ViewState_process_input(ViewState, g, t).repaint
    /\ gesture_budget' = IF g # NoGesture THEN gesture_budget - 1
                         ELSE gesture_budget
    /\ UNCHANGED <<anim_current, anim_target, anim_vec, anim_vec_target,
                   anim_last, anim_budget, cfg_last, folder_vars>>
    /\ UNCHANGED <<viewer_vars, loader_vars, ghost_vars, thumb_vars>>

NextView == \E g \in Gestures, t \in FrameFactors : ProcessInput(g, t)

\* a requested repaint is a further frame; frames have a positive delta
SpecView ==
    /\ InitView
    /\ [][NextView]_vars
    /\ WF_vars(\E t \in PositiveFrameFactors : ProcessInput(NoGesture, t))

-----------------------------------------------------------------------------
(* AppConfig with its file: load, save, the window state of a frame, and    *)
(* the user editing or deleting config.json.                                *)

Rect3 == [pos |-> <<40, 40>>, size |-> <<640, 480>>]

\* what config.json can hold when it was not written by save
Garbage ==
    [json |-> FALSE, object |-> FALSE, window_pos |-> <<>>, window_size |-> <<>>]
EditedContents ==
    {Garbage,
     [Garbage EXCEPT !.json = TRUE],
     [Garbage EXCEPT !.json = TRUE, !.object = TRUE],
     [Garbage EXCEPT !.json = TRUE, !.object = TRUE, !.window_pos = <<JNull>>,
                     !.window_size = <<JArray(<<JNumber(640), JNumber(480)>>)>>],
     [Garbage EXCEPT !.json = TRUE, !.object = TRUE,
                     !.window_pos = <<JArray(<<JNumber(1)>>)>>],
     [Garbage EXCEPT !.json = TRUE, !.object = TRUE,
                     !.window_size = <<JString>>]}

\* the fields of the viewer other than config and config_file
viewer_rest == <<error_msg, view_state, last_loaded_path, current_folder_images,
                 current_image_index, current_image_path, texture_cache,
                 loading_paths, reset_view_on_load>>

InitConfig ==
    /\ InitViewer(NewViewer)
    /\ budget = 0
    /\ InitThumbs
    /\ tl_budget = 0
    /\ InitAnimIdle

ConfigLoad(env) ==
    /\ config' = load(config_file, env)
    /\ cfg_last' = <<[op |-> "load", env |-> env, config |-> config,
                      file |-> config_file]>>
    /\ UNCHANGED <<config_file, viewer_rest, loader_vars, ghost_vars, thumb_vars>>
    /\ UNCHANGED <<anim_current, anim_target, anim_vec, anim_vec_target,
                   anim_last, anim_budget, pz_vars, folder_vars>>

ConfigSave(env) ==
    /\ config_file' = save_file(config, config_file, env)
    /\ cfg_last' = <<[op |-> "save", env |-> env, config |-> config,
                      file |-> config_file]>>
    /\ UNCHANGED <<config, viewer_rest, loader_vars, ghost_vars, thumb_vars>>
    /\ UNCHANGED <<anim_current, anim_target, anim_vec, anim_vec_target,
                   anim_last, anim_budget, pz_vars, folder_vars>>

\* app.rs 355-379: the frame records the window's rect and saves on a change
WindowState(rect, disk) ==
    LET v == save_window_state([Viewer EXCEPT !.cfg_last = <<>>],
                               [NoInput EXCEPT !.rect = <<rect>>, !.disk = disk])
    IN  /\ config' = v.config
        /\ config_file' = v.config_file
        /\ cfg_last' = v.cfg_last
        /\ UNCHANGED <<viewer_rest, loader_vars, ghost_vars, thumb_vars>>
        /\ UNCHANGED <<anim_current, anim_target, anim_vec, anim_vec_target,
                       anim_last, anim_budget, pz_vars, folder_vars>>

\* the user replaces or deletes config.json
FileEdited(file) ==
    /\ config_file' = file
    /\ cfg_last' = <<>>
    /\ UNCHANGED <<config, viewer_rest, loader_vars, ghost_vars, thumb_vars>>
    /\ UNCHANGED <<anim_current, anim_target, anim_vec, anim_vec_target,
                   anim_last, anim_budget, pz_vars, folder_vars>>

NextConfig ==
    \/ \E env \in Envs : ConfigLoad(env)
    \/ \E env \in Envs : ConfigSave(env)
    \/ \E rect \in {Rect1, Rect2, Rect3}, disk \in BOOLEAN : WindowState(rect, disk)
    \/ \E file \in {<<>>} \cup {<<content>> : content \in EditedContents} :
           FileEdited(file)

SpecConfig == InitConfig /\ [][NextConfig]_vars

-----------------------------------------------------------------------------
(* load_folder_contents on a directory of any content: files and            *)
(* subdirectories with and without an extension, in any order, or a         *)
(* directory that cannot be read.                                           *)

\* the extensions of the entries: none, image extensions in lower, upper and
\* mixed case, others, and one that is not UTF-8
Extensions ==
    {<<>>, <<"j", "p", "g">>, <<"J", "P", "G">>, <<"J", "p", "e", "g">>,
     <<"p", "n", "g">>, <<"G", "I", "F">>, <<"w", "e", "b", "p">>,
     <<"b", "m", "p">>, <<"I", "c", "o">>, <<"t", "i", "f", "f">>,
     <<"A", "V", "I", "F">>, <<"t", "x", "t">>, <<"j", "p">>,
     <<"p", "n", "g", "s">>, <<"p", "n", "g", "\\xFF">>}

EntryPaths == 1..3

Entries ==
    {Entry(path, extension, is_file) :
        path \in EntryPaths, extension \in Extensions, is_file \in BOOLEAN}

\* read_dir yields every name of the directory once
Directories ==
    {entries \in UNION {[1..n -> Entries] : n \in 0..MaxEntries} :
        \A i, j \in DOMAIN entries :
            entries[i].path = entries[j].path => i = j}

InitFolder ==
    /\ InitViewer(NewViewer)
    /\ budget = 0
    /\ InitThumbs
    /\ tl_budget = 0
    /\ anim_current = 0
    /\ anim_target = 0
    /\ anim_vec = <<0, 0>>
    /\ anim_vec_target = <<0, 0>>
    /\ anim_last = <<>>
    /\ anim_budget = 0
    /\ InitViewState(0)
    /\ cfg_last = <<>>
    /\ fs_dir \in {<<>>} \cup {<<entries>> : entries \in Directories}
    /\ fs_listing = <<>>

LoadFolderContents ==
    /\ fs_listing = <<>>
    /\ fs_listing' = <<sorted_images(fs_dir)>>
    /\ UNCHANGED <<fs_dir, viewer_vars, loader_vars, ghost_vars, thumb_vars>>
    /\ UNCHANGED <<anim_current, anim_target, anim_vec, anim_vec_target,
                   anim_last, anim_budget, pz_vars, cfg_last>>

NextFolder == LoadFolderContents

SpecFolder == InitFolder /\ [][NextFolder]_vars

-----------------------------------------------------------------------------
(* Claims about the channels *)

PathsOf(chan) == [j \in 1..Len(chan) |-> chan[j].path]

IsPrefix(s, t) == Len(s) <= Len(t) /\ \A k \in 1..Len(s) : s[k] = t[k]

\* C1: for both loaders the k-th result the UI receives carries the path of
\* the k-th Load command it sent.  (SpecBoth)
C1_ResultsInCommandOrder ==
    /\ IsPrefix(img_recv, img_sent)
    /\ IsPrefix(thumb_recv, thumb_sent)

\* three image results have been received, and the result of the first of
\* two thumbnail commands
C1_Witness ==
    /\ Len(img_recv) >= 3
    /\ img_recv[1] # img_recv[2]
    /\ Len(thumb_recv) >= 1
    /\ Len(thumb_sent) >= 2
    /\ thumb_sent[1] # thumb_sent[2]

\* the results the image worker has sent so far
Answered == img_recv \o PathsOf(res_chan)

\* C2: every Load command is answered with exactly one result carrying its
\* path, whatever the user does meanwhile: at any time the commands sent are
\* those answered, then the one being decoded, then those queued, in order
\* (none dropped, none answered twice), and the k-th command sent is
\* eventually answered.  (SpecFair)
C2_EveryLoadAnsweredOnce ==
    /\ [](Answered \o worker \o cmd_chan = img_sent)
    /\ \A k \in 1..(3 * (MaxInputsFair + 1)) :
           (Len(img_sent) >= k) ~> (Len(Answered) >= k)

\* the user moved on to another folder while commands were outstanding, and
\* all of them, failures included, have been answered
C2_Witness ==
    /\ Len(img_sent) >= 4
    /\ Answered = img_sent
    /\ \E k \in 1..Len(img_sent) :
           /\ ~decodes(img_sent[k])
           /\ img_sent[k] \notin Images(current_folder_images)

\* C3: once is_loading() is true for the current image it becomes false
\* again, unless the current path changes.  (SpecFair)
C3_LoadingFlipsBack ==
    \A p \in FileIds :
        (current_image_path = <<p>> /\ p \in loading_paths)
            ~> ~(current_image_path = <<p>> /\ p \in loading_paths)

\* the current image was loading and its result, a texture or an error, has
\* been handled
C3_Witness ==
    /\ current_image_path # <<>>
    /\ ~is_loading(Viewer)
    /\ current_image_path[1] \in Images(img_recv)
    /\ (error_msg # <<>> \/ current_image_path[1] \in texture_cache)

-----------------------------------------------------------------------------
(* Claims about the viewer, under Spec *)

\* the frame's input makes it call load_path, next_image or prev_image
Navigates(inp) == inp.drop # <<>> \/ inp.key # "none" \/ inp.click # <<>>

\* C4: an Error result for the current image sets error_msg to its text; an
\* Error result for another path leaves error_msg as it is; and error_msg,
\* once set, stays set until a frame that loads a path.
C4_ErrorShownForCurrentOnly ==
    [][ /\ (UpdateRecv /\ Head(res_chan).kind = "Error") =>
               IF <<Head(res_chan).path>> = current_image_path
               THEN error_msg' = <<Head(res_chan).err>>
               ELSE error_msg' = error_msg
        /\ (error_msg # <<>> /\ error_msg' = <<>>) =>
               \E inp \in Inputs : Navigates(inp) /\ UpdateInput(inp)
      ]_vars

\* the failure of the current image 7 is shown, after the failure of the
\* preloaded image 6 was not
C4_Witness ==
    /\ current_image_path = <<7>>
    /\ error_msg = <<LoadErrorMsg(7)>>
    /\ 6 \in Images(img_recv)

\* the current image and its neighbours in the folder
CurrentAndNeighbours ==
    IF current_folder_images = <<>>
    THEN Images(current_image_path)
    ELSE LET len == Len(current_folder_images)
         IN  Images(current_image_path)
             \cup {current_folder_images[((current_image_index + len - 1) % len) + 1],
                   current_folder_images[((current_image_index + 1) % len) + 1]}

\* C5: the texture cache holds only textures of the current image and of its
\* previous and next neighbours, hence at most three.
C5_CacheOnlyNeighbours ==
    /\ texture_cache \subseteq CurrentAndNeighbours
    /\ Cardinality(texture_cache) <= 3

\* C8: with n > 0 images, next_image leaves the index at (i+1) mod n and
\* prev_image at (i-1) mod n, the current image is folder[index], either
\* undoes the other, and on an empty folder both change nothing.
C8_NavigationWraps ==
    LET n == Len(current_folder_images)
        v == Viewer
    IN  /\ nav # <<>> =>
               /\ n > 0
               /\ current_image_index =
                      (IF nav[1].op = "next" THEN nav[1].from + 1
                       ELSE nav[1].from + n - 1) % n
               /\ current_image_path =
                      <<current_folder_images[current_image_index + 1]>>
        /\ n > 0 =>
               /\ prev_image(next_image(v)).current_image_index
                      = current_image_index
               /\ next_image(prev_image(v)).current_image_index
                      = current_image_index
        /\ n = 0 => next_image(v) = v /\ prev_image(v) = v

\* prev_image at index 0 of the four-image folder has wrapped to index 3
C8_Witness ==
    /\ nav # <<>>
    /\ nav[1].op = "prev"
    /\ nav[1].from = 0
    /\ current_image_index = 3
    /\ current_image_path = <<4>>

-----------------------------------------------------------------------------
(* Claims about the thumbnail cache, under SpecThumb *)

\* the distance of a folder image from the current image: |index - current_index|
FolderDist(folder_images, current_index, path) ==
    LET i == CHOOSE j \in 1..Len(folder_images) : folder_images[j] = path
    IN  IF i - 1 >= current_index THEN i - 1 - current_index
        ELSE current_index - (i - 1)

\* C6: when update_folder has returned for a non-empty folder the thumbnail
\* cache holds at most 200 entries, and exactly 100 if it held more than 200
\* when the call began.
C6_EvictionBoundsCache ==
    (tl_last # <<>> /\ tl_last[1].folder # <<>>) =>
        /\ Cardinality(thumbnails) <= 200
        /\ (Cardinality(tl_last[1].before) > 200 =>
                Cardinality(thumbnails) = 100)

\* an update_folder call that found more than 200 thumbnails has returned
C6_Witness ==
    /\ tl_last # <<>>
    /\ tl_last[1].folder # <<>>
    /\ Cardinality(tl_last[1].before) > 200
    /\ Cardinality(thumbnails) = 100

\* C7: after an eviction in update_folder no retained thumbnail of a folder
\* image is farther from the current image than any evicted thumbnail of a
\* folder image.
C7_FurthestEvictedFirst ==
    tl_last # <<>> =>
        LET call == tl_last[1]
            in_folder == Images(call.folder)
            retained == {FolderDist(call.folder, call.index, p) :
                            p \in (call.before \cap thumbnails) \cap in_folder}
            evicted == {FolderDist(call.folder, call.index, p) :
                            p \in (call.before \ thumbnails) \cap in_folder}
        IN  \A r \in retained, e \in evicted : r <= e

\* an update_folder call on the large folder has evicted some of its
\* thumbnails and kept others, on both sides of the current image
C7_Witness ==
    /\ tl_last # <<>>
    /\ tl_last[1].folder = BigFolder
    /\ \E p \in tl_last[1].before \ thumbnails :
           \E q \in tl_last[1].before \ thumbnails :
               p < 21 + tl_last[1].index /\ q > 21 + tl_last[1].index
    /\ \E p \in thumbnails : p \in Images(BigFolder)

-----------------------------------------------------------------------------
(* Claims about the UI thread never waiting, under SpecBoth *)

-----------------------------------------------------------------------------
(* Claims about the easing functions, under SpecAnim *)

\* x lies between a and b, ends included
Between(a, x, b) == (a <= x /\ x <= b) \/ (b <= x /\ x <= a)

DistSq(u, v) ==
    (u[1] - v[1]) * (u[1] - v[1]) + (u[2] - v[2]) * (u[2] - v[2])

-----------------------------------------------------------------------------
(* Claims about the pan/zoom animation, under SpecView *)

\* zoom and pan are exactly at their targets and no repaint is asked for
Settled == zoom = target_zoom /\ pan = target_pan /\ ~repaint

-----------------------------------------------------------------------------
(* Claims about the configuration file, under SpecConfig *)

\* C12: load and save can always be called and complete; load returns no
\* window position and window size 800x600 whenever the config path is
\* unavailable or the file is missing, unreadable or not JSON, and leaves the
\* file alone; save leaves the configuration in memory as it was, and the
\* file too when nothing could be written.
C12_ConfigBestEffort ==
    /\ \A env \in Envs : ENABLED ConfigLoad(env) /\ ENABLED ConfigSave(env)
    /\ cfg_last # <<>> =>
           LET call == cfg_last[1]
           IN  /\ (/\ call.op = "load"
                   /\ \/ ~call.env.dirs
                      \/ call.file = <<>>
                      \/ ~call.env.read_ok
                      \/ ~call.file[1].json) =>
                      /\ config = [window_pos |-> <<>>,
                                   window_size |-> <<<<800, 600>>>>]
                      /\ config_file = call.file
               /\ call.op = "save" =>
                      /\ config = call.config
                      /\ ~(call.env.dirs /\ call.env.write_ok) =>
                             config_file = call.file

\* load has replaced a configuration read earlier by the default because the
\* file no longer was JSON
C12_Witness ==
    /\ cfg_last # <<>>
    /\ cfg_last[1].op = "load"
    /\ cfg_last[1].env = AllOk
    /\ cfg_last[1].file = <<Garbage>>
    /\ cfg_last[1].config.window_pos # <<>>
    /\ config = AppConfig_default

-----------------------------------------------------------------------------
(* Claims about the viewer's bookkeeping *)

\* the Load commands in flight, oldest first: the results not yet received,
\* the command being decoded, the commands queued
InFlight == PathsOf(res_chan) \o worker \o cmd_chan

NoDuplicates(seq) ==
    \A i, j \in 1..Len(seq) : seq[i] = seq[j] => i = j

\* C14: loading_paths is exactly the set of paths whose Load command is
\* queued, is being decoded or has a result the UI has not received yet; no
\* path has more than one such request in flight; and no path is both in
\* texture_cache and in loading_paths.
C14_LoadingPathsAreInFlight ==
    /\ loading_paths = Images(InFlight)
    /\ NoDuplicates(InFlight)
    /\ texture_cache \cap loading_paths = {}

\* three requests in flight at the three stages, next to a cached texture
C14_Witness ==
    /\ cmd_chan # <<>>
    /\ worker # <<>>
    /\ res_chan # <<>>
    /\ Cardinality(loading_paths) >= 3
    /\ texture_cache # {}

\* what the central panel shows
shows_placeholder(v) ==
    /\ ~is_loading(v)
    /\ v.error_msg = <<>>
    /\ ~(v.current_image_path # <<>>
          /\ v.current_image_path[1] \in v.texture_cache)

\* the selected image has a texture, a load in flight or an error
Accounted(v) ==
    v.current_image_path # <<>> =>
        \/ v.current_image_path[1] \in v.texture_cache
        \/ v.current_image_path[1] \in v.loading_paths
        \/ v.error_msg # <<>>

\* C15: whenever current_image_path is set, that path is in texture_cache or
\* in loading_paths or error_msg is set; so the central panel shows the "Open
\* Image or Folder" placeholder only when no image is selected.
C15_CurrentIsAccountedFor ==
    /\ Accounted(Viewer)
    /\ shows_placeholder(Viewer) => current_image_path = <<>>

\* the selected image failed to decode: neither cached nor loading, the
\* error stands in for it, next to a cached neighbour
C15_Witness ==
    /\ current_image_path # <<>>
    /\ current_image_path[1] \notin texture_cache \cup loading_paths
    /\ error_msg # <<>>
    /\ texture_cache # {}
    /\ ~shows_placeholder(Viewer)

\* C16: whenever current_image_path is set, current_folder_images is not
\* empty, current_image_index is below its length and the entry at that index
\* is the current path.
C16_IndexPointsAtCurrent ==
    current_image_path # <<>> =>
        /\ current_folder_images # <<>>
        /\ current_image_index < Len(current_folder_images)
        /\ current_folder_images[current_image_index + 1]
               = current_image_path[1]

\* a file dropped in the middle of its folder, and a file that is not among
\* the images of its folder
C16_Witness ==
    \/ /\ current_image_path = <<2>>
       /\ current_image_index = 1
       /\ current_folder_images = <<1, 2, 3, 4>>
       /\ img_recv # <<>>
    \/ /\ current_image_path = <<7>>
       /\ current_folder_images = <<7>>
       /\ img_recv # <<>>

\* C17: immediately after every load_file on a folder that is not empty, the
\* current image, the previous image and the next image (indices modulo the
\* folder length) are each in texture_cache or in loading_paths, and
\* texture_cache holds no path other than these three.
C17_NeighboursPreloaded ==
    (selection.fresh /\ current_folder_images # <<>>) =>
        /\ CurrentAndNeighbours \subseteq texture_cache \cup loading_paths
        /\ texture_cache \subseteq CurrentAndNeighbours

\* a key press moved on in a folder of four: a texture received earlier was
\* dropped from the cache, one neighbour is cached and one is loading
C17_Witness ==
    /\ selection.fresh
    /\ selection.by \in {"next_image", "prev_image"}
    /\ Len(current_folder_images) = 4
    /\ \E path \in Images(img_recv) : decodes(path) /\ path \notin texture_cache
    /\ texture_cache \ Images(current_image_path) # {}
    /\ loading_paths \ Images(current_image_path) # {}

\* the central panel paints the texture of the current image
shows_image(v) ==
    /\ ~is_loading(v)
    /\ v.error_msg = <<>>
    /\ v.current_image_path # <<>>
    /\ v.current_image_path[1] \in v.texture_cache

\* C18: after load_path selects an image, the view state has been reset to
\* zoom 1 and pan zero by the time the image's texture is displayed, whether
\* or not the texture was already in the cache: as long as load_path made the
\* last selection and no scroll or drag was handled since, an image that is
\* displayed is displayed with the default view.
C18_ViewResetWhenDisplayed ==
    (selection.by = "load_path" /\ selection.untouched /\ shows_image(Viewer))
        => view_state = "default"

\* C19: between a next_image or prev_image call and the next load_path, no
\* result the UI processes calls view_state.reset(): the view is left as it
\* is and reset_view_on_load is not consumed.
C19_NavigationKeepsView ==
    [][ (UpdateRecv /\ selection.by \in {"next_image", "prev_image"}) =>
            /\ view_state' = view_state
            /\ reset_view_on_load' = reset_view_on_load
      ]_vars

\* the texture of the image a key press moved to arrived after the key
\* press, and the view the user had set is still there
C19_Witness ==
    /\ selection.by \in {"next_image", "prev_image"}
    /\ ~selection.fresh
    /\ view_state = "moved"
    /\ img_recv # <<>>
    /\ <<img_recv[Len(img_recv)]>> = current_image_path
    /\ last_loaded_path = current_image_path
    /\ shows_image(Viewer)

\* C20: processing a Success or Error result whose path differs from
\* current_image_path changes only texture_cache and loading_paths; error_msg,
\* the view state, reset_view_on_load, last_loaded_path (and image_size, set
\* with it), the folder listing, the current index and everything else of the
\* viewer are left unchanged.
C20_StaleResultsHarmless ==
    [][ (UpdateRecv /\ <<Head(res_chan).path>> # current_image_path) =>
            UNCHANGED <<error_msg, view_state, reset_view_on_load,
                        last_loaded_path, current_folder_images,
                        current_image_index, current_image_path, config,
                        config_file, cmd_chan>>
      ]_vars

\* the texture of an image that is not the current one was received while
\* the current image showed an error and the view had been moved
C20_Witness ==
    /\ img_recv # <<>>
    /\ <<img_recv[Len(img_recv)]>> # current_image_path
    /\ img_recv[Len(img_recv)] \in texture_cache
    /\ ~selection.fresh
    /\ nav = <<>>
    /\ current_image_path # <<>>
    /\ error_msg # <<>>
    /\ view_state = "moved"

\* the frames in which only an arrow key (or A, D) is pressed
KeyPresses == {[NoInput EXCEPT !.key = key] : key \in {"right", "left", "both"}}

\* C21: load_path on a folder without a recognised image sets error_msg to
\* "No images found in the folder." and current_image_path to None and sends
\* no Load command; the folder listing is empty, so that keyboard navigation
\* does nothing, for as long as no other path is opened.
C21_EmptyFolderIsAnError ==
    [][ (selection'.by = "load_path" /\ current_folder_images' = <<>>) =>
            /\ error_msg' = <<NoImagesMsg>>
            /\ current_image_path' = <<>>
            /\ img_sent' = img_sent
            /\ nav' = <<>>
            /\ \A inp \in KeyPresses : handle_keys(Viewer, inp)' = Viewer'
      ]_vars

\* the empty folder was opened after an image had been shown; its texture is
\* still cached, and a later frame left the error in place
C21_Witness ==
    /\ selection.by = "load_path"
    /\ current_folder_images = <<>>
    /\ error_msg = <<NoImagesMsg>>
    /\ current_image_path = <<>>
    /\ texture_cache # {}
    /\ budget = 0

-----------------------------------------------------------------------------
(* Claims about the window state, under SpecConfig *)

\* C22: in a frame that is told the window's rect, config.save() is called
\* if and only if the reported position or size differs from the stored
\* window_pos or window_size, and at the end of the frame the stored
\* window_pos and window_size are the reported ones.
C22_WindowStateSavedOnChange ==
    [][ \A rect \in {Rect1, Rect2, Rect3}, disk \in BOOLEAN :
            WindowState(rect, disk) =>
                /\ (cfg_last' # <<>>) <=>
                       (\/ config.window_pos # <<rect.pos>>
                        \/ config.window_size # <<rect.size>>)
                /\ config'.window_pos = <<rect.pos>>
                /\ config'.window_size = <<rect.size>>
      ]_vars

\* the window was resized without being moved and the frame saved the new
\* size over the old one
C22_Witness ==
    /\ cfg_last # <<>>
    /\ cfg_last[1].op = "save"
    /\ cfg_last[1].config = config
    /\ config.window_pos = <<Rect3.pos>>
    /\ config.window_size = <<Rect3.size>>
    /\ cfg_last[1].file = <<to_string_pretty([window_pos |-> <<Rect2.pos>>,
                                               window_size |-> <<Rect2.size>>])>>
    /\ config_file = <<to_string_pretty(config)>>

-----------------------------------------------------------------------------
(* Claims about the folder listing, under SpecFolder *)

\* the two extensions are the same but for the case of their letters
SameIgnoringCase(a, b) ==
    /\ Len(a) = Len(b)
    /\ \A i \in 1..Len(a) :
           \/ a[i] = b[i]
           \/ \E k \in DOMAIN Upper :
                  {a[i], b[i]} = {Upper[k], Lower[k]}

\* the files of the directory with the extension of an image
ImageFiles(entries) ==
    {entries[i].path : i \in
        {i \in DOMAIN entries :
            /\ entries[i].is_file
            /\ \E ext \in ImageExtensions :
                   SameIgnoringCase(entries[i].extension, ext)}}

\* C23: the folder listing holds exactly the files of the directory whose
\* extension is, but for the case of its letters, one of jpg, jpeg, png, gif,
\* webp, bmp, ico, tiff, avif, in ascending order of their paths and each
\* once; a directory that cannot be read gives the empty listing.
C23_ListingIsSortedImages ==
    fs_listing # <<>> =>
        LET images == fs_listing[1]
        IN  /\ fs_dir = <<>> => images = <<>>
            /\ fs_dir # <<>> => Images(images) = ImageFiles(fs_dir[1])
            /\ \A i, j \in 1..Len(images) : i < j => images[i] < images[j]

\* read_dir yielded the later path first and an extension in upper case; both
\* files are listed, in ascending order
C23_Witness ==
    /\ fs_dir # <<>>
    /\ Len(fs_dir[1]) = 2
    /\ fs_dir[1][1].path > fs_dir[1][2].path
    /\ fs_dir[1][1].extension = <<"J", "P", "G">>
    /\ fs_listing = <<<<fs_dir[1][2].path, fs_dir[1][1].path>>>>

====
